---- MODULE Spec2Model ----
(***************************************************************************)
(* A model of the wordle solver of src/main.py: the evaluator              *)
(* (Guess.create_from_word), the constraint model (Constraint), the        *)
(* constraint updater (update_constraints), the candidate selector         *)
(* (get_word_to_guess), the Puzzle class and the simulate loop.            *)
(*                                                                         *)
(* A word is a sequence of one-letter strings; Python's 0-based positions  *)
(* are kept in the constraints (word[p] of the code is word[p + 1] here).  *)
(* The letter frequencies are Python floats, kept bit for bit.             *)
(***************************************************************************)
EXTENDS Integers, Sequences, FiniteSets, TLC

VARIABLES
    mode,           \* which entry point of the program this behaviour runs
    pc,             \* position of the running entry point
    word,           \* the word argument of the last call
    solution,       \* the solution argument / Puzzle.solution
    guess,          \* the Guess returned by the last evaluation
    constraints,    \* the list of constraints (simulate's local variable)
    words,          \* the corpus list handed to get_word_to_guess / simulate
    guesses,        \* Puzzle.guesses
    raised,         \* the exception raised by the last call, "none" if none
    set_order,      \* the order in which this process iterates set(word)
    result          \* the value returned by the last call

vars == <<mode, pc, word, solution, guess, constraints, words, guesses, raised,
          set_order, result>>

-----------------------------------------------------------------------------
(* Bounds of the model *)

\* the alphabet the words of the model are drawn from
Letters == {"a", "b", "c"}

\* longest word handed to the evaluator as a pure function
MaxLen == 3

\* the words of length n
WordsOfLen(n) == [1..n -> Letters]

\* the words of length at most n
WordsUpTo(n) == UNION {WordsOfLen(k) : k \in 0..n}

-----------------------------------------------------------------------------
(* Colour, Char, Guess *)

GREY == "grey"
YELLOW == "yellow"
GREEN == "green"

\* the colour of a Char that pass 1 of create_from_word has not decided
None == "None"

Colour == {GREY, YELLOW, GREEN}

Char(letter, colour) == [letter |-> letter, colour |-> colour]

Min(a, b) == IF a < b THEN a ELSE b

\* `char in solution`
InWord(char, w) == \E j \in 1..Len(w) : w[j] = char

\* Counter(solution)[letter]
num_instances_in_solution(sol, letter) ==
    Cardinality({j \in 1..Len(sol) : sol[j] = letter})

\* as num_instances_recognised_so_far, but the Greens are not counted
num_instances_recognised_yellow_only(chars, letter) ==
    Cardinality({j \in 1..Len(chars) :
                    chars[j].letter = letter /\ chars[j].colour = YELLOW})

\* the chars of the whole list with this letter that are Green or Yellow by now
num_instances_recognised_so_far(chars, letter) ==
    Cardinality({j \in 1..Len(chars) :
                    chars[j].letter = letter /\ chars[j].colour \in {GREEN, YELLOW}})

\* as first_pass, but a letter that occurs elsewhere in the solution is Yellow at once
first_pass_eager_yellow(w, sol) ==
    [i \in 1..Min(Len(w), Len(sol)) |->
        Char(w[i], IF w[i] = sol[i] THEN GREEN
                   ELSE IF ~InWord(w[i], sol) THEN GREY
                   ELSE YELLOW)]

\* the first loop of create_from_word: zip(word, solution) stops at the shorter one
first_pass(w, sol) ==
    [i \in 1..Min(Len(w), Len(sol)) |->
        Char(w[i], IF w[i] = sol[i] THEN GREEN
                   ELSE IF ~InWord(w[i], sol) THEN GREY
                   ELSE None)]

\* one iteration of the second loop of create_from_word, on chars[i]
second_pass_step(chars, i, sol) ==
    IF chars[i].colour # None
    THEN chars
    ELSE LET should_be_yellow ==
                 num_instances_recognised_so_far(chars, chars[i].letter)
                     < num_instances_in_solution(sol, chars[i].letter)
         IN  [chars EXCEPT ![i].colour = IF should_be_yellow THEN YELLOW ELSE GREY]

\* the second loop of create_from_word, from index i on
RECURSIVE second_pass(_, _, _)
second_pass(chars, i, sol) ==
    IF i > Len(chars)
    THEN chars
    ELSE second_pass(second_pass_step(chars, i, sol), i + 1, sol)

\* Guess.create_from_word(word, solution).chars
create_from_word(w, sol) == second_pass(first_pass(w, sol), 1, sol)

\* Guess.is_correct
is_correct(g) == \A i \in 1..Len(g) : g[i].colour = GREEN

-----------------------------------------------------------------------------
(* The evaluator as a pure function: SpecEval *)

InitEval ==
    /\ mode = "eval"
    /\ pc = "call"
    /\ word \in WordsUpTo(MaxLen)
    /\ solution \in WordsUpTo(MaxLen)
    /\ guess = <<>>
    /\ constraints = <<>>
    /\ words = <<>>
    /\ guesses = <<>>
    /\ raised = "none"
    /\ set_order = <<>>
    /\ result = <<>>

\* Guess.create_from_word(word, solution): no path of it raises
Evaluate ==
    /\ mode = "eval"
    /\ pc = "call"
    /\ guess' = create_from_word(word, solution)
    /\ raised' = "none"
    /\ pc' = "returned"
    /\ UNCHANGED <<mode, word, solution, constraints, words, guesses, result, set_order>>

NextEval == Evaluate

SpecEval == InitEval /\ [][NextEval]_vars

-----------------------------------------------------------------------------
(* ConstraintType, Constraint *)

IN_SOME_POSITION == "in_some_position"
NOT_IN_POSITIONS == "not_in_positions"

Constraint(char, positions, type) ==
    [char |-> char, positions |-> positions, type |-> type]

\* Constraint.is_satisfied(word); the positions are 0-based as in the code
is_satisfied(constraint, w) ==
    LET char_is_in_some_position ==
            \E position \in constraint.positions : w[position + 1] = constraint.char
    IN  IF constraint.type = IN_SOME_POSITION
        THEN char_is_in_some_position
        ELSE ~char_is_in_some_position

\* all(constraint.is_satisfied(word) for constraint in constraints)
satisfies_all(cs, w) == \A k \in 1..Len(cs) : is_satisfied(cs[k], w)

-----------------------------------------------------------------------------
(* update_constraints *)

\* [constraint for constraint in new_constraints if constraint.char != letter]
without_char(cs, letter) == SelectSeq(cs, LAMBDA constraint : constraint.char # letter)

\* Counter(char.letter for char in guess.chars)[letter] > 1
char_is_duplicate(g, letter) ==
    Cardinality({j \in 1..Len(g) : g[j].letter = letter}) > 1

\* as update_for_char, but every Grey letter is banned from the whole word
update_for_char_grey_global(new_constraints, g, i, word_length) ==
    LET letter == g[i].letter
        here == {i - 1}
    IN  IF g[i].colour = GREEN
        THEN Append(without_char(new_constraints, letter),
                    Constraint(letter, here, IN_SOME_POSITION))
        ELSE IF g[i].colour = YELLOW
        THEN new_constraints
                 \o <<Constraint(letter, (0..(word_length - 1)) \ here, IN_SOME_POSITION),
                      Constraint(letter, here, NOT_IN_POSITIONS)>>
        ELSE Append(without_char(new_constraints, letter),
                    Constraint(letter, 0..(word_length - 1), NOT_IN_POSITIONS))

\* the body of the loop of update_constraints for guess.chars[i] (i is 1-based
\* here, so the position of the code is i - 1)
update_for_char(new_constraints, g, i, word_length) ==
    LET letter == g[i].letter
        here == {i - 1}
    IN  IF g[i].colour = GREEN
        THEN Append(without_char(new_constraints, letter),
                    Constraint(letter, here, IN_SOME_POSITION))
        ELSE IF g[i].colour = YELLOW
        THEN new_constraints
                 \o <<Constraint(letter, (0..(word_length - 1)) \ here, IN_SOME_POSITION),
                      Constraint(letter, here, NOT_IN_POSITIONS)>>
        ELSE IF char_is_duplicate(g, letter)
        THEN Append(new_constraints, Constraint(letter, here, NOT_IN_POSITIONS))
        ELSE Append(without_char(new_constraints, letter),
                    Constraint(letter, 0..(word_length - 1), NOT_IN_POSITIONS))

\* the loop of update_constraints, from index i on
RECURSIVE update_from(_, _, _, _)
update_from(new_constraints, g, i, word_length) ==
    IF i > Len(g)
    THEN new_constraints
    ELSE update_from(update_for_char(new_constraints, g, i, word_length),
                     g, i + 1, word_length)

\* update_constraints(constraints, guess, word_length)
update_constraints(cs, g, word_length) == update_from(cs, g, 1, word_length)

-----------------------------------------------------------------------------
(* get_frequency_score, get_word_to_guess *)

\* ALL_CHARS
ALL_CHARS == {"a", "b", "c", "d", "e", "f", "g", "h", "i", "j", "k", "l", "m",
              "n", "o", "p", "q", "r", "s", "t", "u", "v", "w", "x", "y", "z"}

\* A Python float (IEEE-754 binary64) is kept exactly: the float x is the integer
\* x * 2^61, written as three limbs <<high, middle, low>> of 20 bits each. Every
\* frequency of the table and every sum of at most WORD_LENGTH of them is below 1/2,
\* so the integer is below 2^60, and no float of the table is finer than 2^-61.
LimbBase == 2^20

\* the int 0 that sum() starts from
Zero == <<0, 0, 0>>

\* x < y on floats
float_less(x, y) ==
    \/ x[1] < y[1]
    \/ x[1] = y[1] /\ x[2] < y[2]
    \/ x[1] = y[1] /\ x[2] = y[2] /\ x[3] < y[3]

\* the bits of the exact sum n that lie below the 53 bits a binary64 keeps: the
\* leading bit of n is bit 40 + (bit length of the high limb) - 1
bits_below_mantissa(n) ==
    CHOOSE s \in 0..7 :
        /\ n[1] < 2^(13 + s)
        /\ s = 0 \/ n[1] >= 2^(12 + s)

\* the exact sum n rounded to 53 significant bits, ties to even
round_to_nearest_even(n) ==
    LET quantum == 2^bits_below_mantissa(n)
        rest == n[3] % quantum
        down == n[3] - rest
        round_up == \/ 2 * rest > quantum
                    \/ 2 * rest = quantum /\ (down \div quantum) % 2 = 1
        low == IF round_up THEN down + quantum ELSE down
        middle == n[2] + (low \div LimbBase)
    IN  <<n[1] + (middle \div LimbBase), middle % LimbBase, low % LimbBase>>

\* x + y on floats: the exact sum, rounded; 0 + y is y
float_add(x, y) ==
    IF x = Zero
    THEN y
    ELSE LET low == x[3] + y[3]
             middle == x[2] + y[2] + (low \div LimbBase)
         IN  round_to_nearest_even(
                 <<x[1] + y[1] + (middle \div LimbBase), middle % LimbBase,
                   low % LimbBase>>)

\* CHAR_TO_FREQUENCY: the floats the literals of the table denote
CHAR_TO_FREQUENCY == [char \in ALL_CHARS |->
    CASE char = "a" -> <<201326, 620756, 1040192>>
      [] char = "b" -> <<52219, 88919, 256688>>
      [] char = "c" -> <<63333, 1038509, 702968>>
      [] char = "d" -> <<77175, 203004, 328832>>
      [] char = "e" -> <<210554, 63753, 441248>>
      [] char = "f" -> <<35022, 459695, 753296>>
      [] char = "g" -> <<52638, 540226, 372456>>
      [] char = "h" -> <<56203, 706320, 832152>>
      [] char = "i" -> <<123731, 1015021, 595584>>
      [] char = "j" -> <<9646, 942879, 565392>>
      [] char = "k" -> <<49492, 825439, 28520>>
      [] char = "l" -> <<106745, 38587, 625792>>
      [] char = "m" -> <<68157, 461373, 461376>>
      [] char = "n" -> <<98146, 748263, 874096>>
      [] char = "o" -> <<147220, 73819, 786848>>
      [] char = "p" -> <<68786, 614046, 110736>>
      [] char = "q" -> <<4194, 318767, 109052>>
      [] char = "r" -> <<133169, 159383, 578816>>
      [] char = "s" -> <<206569, 494927, 914368>>
      [] char = "t" -> <<104647, 927780, 46976>>
      [] char = "u" -> <<82627, 827116, 785168>>
      [] char = "v" -> <<22649, 253335, 1008312>>
      [] char = "w" -> <<31876, 744908, 409364>>
      [] char = "x" -> <<9227, 491572, 449630>>
      [] char = "y" -> <<67738, 10066, 345616>>
      [] char = "z" -> <<14260, 664377, 790206>>]

\* set(word)
letter_set(w) == {w[j] : j \in 1..Len(w)}

\* the orders a set with these elements can be iterated in
iteration_orders(chars) ==
    {order \in [1..Cardinality(chars) -> chars] :
        \A i, j \in 1..Cardinality(chars) : i # j => order[i] # order[j]}

\* The order in which this process iterates set(word). It depends on the hash seed
\* of the process and on the order of insertion, so it is any order, fixed per
\* word for the life of the process: set_order holds it for the corpus words of
\* three or more distinct letters. With one or two distinct letters every order
\* gives the same float (0 + x is exact and x + y = y + x), and the order of first
\* occurrence stands for all of them.
set_iteration(w) ==
    IF w \in DOMAIN set_order
    THEN set_order[w]
    ELSE LET firsts == {j \in 1..Len(w) : \A m \in 1..(j - 1) : w[m] # w[j]}
         IN  [i \in 1..Cardinality(firsts) |->
                 w[CHOOSE j \in firsts : Cardinality({m \in firsts : m < j}) = i - 1]]

\* the choices of set_order for a corpus: an iteration order for each of its words
\* of three or more distinct letters
set_orders(ws) ==
    LET hashed == {w \in {ws[k] : k \in 1..Len(ws)} : Cardinality(letter_set(w)) >= 3}
    IN  {f \in [hashed -> UNION {iteration_orders(letter_set(w)) : w \in hashed}] :
            \A w \in hashed : f[w] \in iteration_orders(letter_set(w))}

\* sum(CHAR_TO_FREQUENCY[char] for char in ...): the floats are added from left to
\* right, starting from 0, each addition rounded
RECURSIVE sum_frequencies(_, _)
sum_frequencies(order, n) ==
    IF n = 0
    THEN Zero
    ELSE float_add(sum_frequencies(order, n - 1), CHAR_TO_FREQUENCY[order[n]])

\* get_frequency_score(word)
get_frequency_score(w) ==
    LET order == set_iteration(w)
    IN  sum_frequencies(order, Len(order))

\* as filter_words, but the words are not filtered
filter_words_keeps_all(ws, cs) == ws

\* the words of the list that violate no constraint, in the order of the list
filter_words(ws, cs) == SelectSeq(ws, LAMBDA w : satisfies_all(cs, w))

\* max(words, key=get_frequency_score): the first word of the list that no word
\* of the list has a greater score than and no earlier word has an equal score to
max_by_score(ws) ==
    LET score == [k \in 1..Len(ws) |-> get_frequency_score(ws[k])]
        best == CHOOSE k \in 1..Len(ws) :
                    /\ \A j \in 1..Len(ws) : ~float_less(score[k], score[j])
                    /\ \A j \in 1..(k - 1) : float_less(score[j], score[k])
    IN  ws[best]

\* what a call returns: the exception it raised, or its value
Returned(value) == [raised |-> "none", value |-> value]
Raised(exception) == [raised |-> exception, value |-> <<>>]

\* get_word_to_guess(words, constraints): max() of an empty list raises ValueError
get_word_to_guess(ws, cs) ==
    LET candidates == filter_words(ws, cs)
    IN  IF candidates = <<>>
        THEN Raised("ValueError")
        ELSE Returned(max_by_score(candidates))

-----------------------------------------------------------------------------
(* Puzzle *)

MAX_NUM_GUESSES == 6
WORD_LENGTH == 5

\* the alphabet of the puzzle words of the model
PuzzleLetters == {"a", "b"}

\* the words a puzzle of the model is played with
PuzzleWords == [1..WORD_LENGTH -> PuzzleLetters]

\* most guesses folded into one constraint list by the updater on its own
MaxFolds == 2

\* Puzzle.won
won(gs) == IF gs = <<>> THEN FALSE ELSE is_correct(gs[Len(gs)])

\* as is_in_progress, but without the limit on the number of guesses
is_in_progress_until_won(gs) == ~won(gs)

\* Puzzle.is_in_progress
is_in_progress(gs) == IF won(gs) THEN FALSE ELSE Len(gs) < MAX_NUM_GUESSES

\* Lost of the specification: the guesses are used up and the last is not correct
lost(gs) == ~won(gs) /\ Len(gs) = MAX_NUM_GUESSES

\* str.lower() on the characters the model enters
lower_char(char) ==
    CASE char = "A" -> "a"
      [] char = "B" -> "b"
      [] OTHER -> char

\* word.lower()
lower(w) == [i \in 1..Len(w) |-> lower_char(w[i])]

\* what enter_word leaves: the exception it raised, Puzzle.guesses and its value
Entered(exception, gs, g) == [raised |-> exception, guesses |-> gs, guess |-> g]

\* Puzzle.enter_word(word) on a puzzle with these guesses and this solution
enter_word(gs, sol, w) ==
    IF Len(gs) >= MAX_NUM_GUESSES
    THEN Entered("exceeded max number of guesses", gs, <<>>)
    ELSE IF Len(w) # WORD_LENGTH
    THEN Entered("word is not WORD_LENGTH chars long", gs, <<>>)
    ELSE IF letter_set(lower(w)) \ ALL_CHARS # {}
    THEN Entered("word has unknown characters", gs, <<>>)
    ELSE LET g == create_from_word(lower(w), sol)
         IN  Entered("none", Append(gs, g), g)

-----------------------------------------------------------------------------
(* The updater folding the guesses made against one solution: SpecFold *)

InitFold ==
    /\ mode = "fold"
    /\ pc = "call"
    /\ word = <<>>
    /\ solution \in PuzzleWords
    /\ guess = <<>>
    /\ constraints = <<>>
    /\ words = <<>>
    /\ guesses = <<>>
    /\ raised = "none"
    /\ set_order = <<>>
    /\ result = <<>>

\* guess = Guess.create_from_word(w, solution);
\* constraints = update_constraints(constraints, guess, WORD_LENGTH)
Fold(w) ==
    /\ mode = "fold"
    /\ Len(guesses) < MaxFolds
    /\ word' = w
    /\ guess' = create_from_word(w, solution)
    /\ constraints' = update_constraints(constraints, guess', WORD_LENGTH)
    /\ guesses' = Append(guesses, guess')
    /\ UNCHANGED <<mode, pc, solution, words, raised, result, set_order>>

NextFold == \E w \in PuzzleWords : Fold(w)

SpecFold == InitFold /\ [][NextFold]_vars

-----------------------------------------------------------------------------
(* The Puzzle class driven by any caller: SpecPuzzle *)

\* the words the caller of the model enters: three puzzle words, one of them in
\* capitals too, a word that is too short and a word with an unknown character
EnteredWords ==
    { <<"a", "a", "b", "b", "b">>,
      <<"b", "a", "b", "b", "b">>,
      <<"a", "b", "a", "b", "a">>,
      <<"A", "A", "B", "B", "B">>,
      <<"a", "a", "b", "b">>,
      <<"a", "a", "?", "b", "b">> }

InitPuzzle ==
    /\ mode = "puzzle"
    /\ pc = "call"
    /\ word = <<>>
    /\ solution \in EnteredWords \cap PuzzleWords
    /\ guess = <<>>
    /\ constraints = <<>>
    /\ words = <<>>
    /\ guesses = <<>>
    /\ raised = "none"
    /\ set_order = <<>>
    /\ result = <<>>

\* puzzle.enter_word(w), whatever the state of the puzzle
EnterWord(w) ==
    /\ mode = "puzzle"
    /\ LET entered == enter_word(guesses, solution, w)
       IN  /\ word' = w
           /\ raised' = entered.raised
           /\ guesses' = entered.guesses
           /\ guess' = entered.guess
    /\ UNCHANGED <<mode, pc, solution, constraints, words, result, set_order>>

NextPuzzle == \E w \in EnteredWords : EnterWord(w)

SpecPuzzle == InitPuzzle /\ [][NextPuzzle]_vars

-----------------------------------------------------------------------------
(* simulate: SpecSim *)

\* longest corpus list of the model
MaxCorpus == 2

\* the lists of at most n words of W without repetition
ListsUpTo(W, n) ==
    {ws \in UNION {[1..k -> W] : k \in 0..n} :
        \A i, j \in 1..Len(ws) : i # j => ws[i] # ws[j]}

\* simulate(words) after puzzle = Puzzle(solution=random.choice(words), guesses=[])
\* and constraints = []
InitSim ==
    /\ mode = "simulate"
    /\ pc = "while"
    /\ word = <<>>
    /\ words \in ListsUpTo(PuzzleWords, MaxCorpus) \ {<<>>}
    /\ solution \in {words[k] : k \in 1..Len(words)}
    /\ guess = <<>>
    /\ constraints = <<>>
    /\ guesses = <<>>
    /\ raised = "none"
    /\ set_order \in set_orders(words)
    /\ result = <<>>

\* while puzzle.is_in_progress:
SimWhile ==
    /\ mode = "simulate"
    /\ pc = "while"
    /\ pc' = IF is_in_progress(guesses) THEN "body" ELSE "after"
    /\ UNCHANGED <<mode, word, solution, guess, constraints, words, guesses, raised, result, set_order>>

\* the body of the loop: get_word_to_guess, enter_word, the is_correct test with
\* its break, update_constraints; an exception of a call ends simulate
SimBody ==
    /\ mode = "simulate"
    /\ pc = "body"
    /\ LET word_to_guess == get_word_to_guess(words, constraints)
           entered == enter_word(guesses, solution, word_to_guess.value)
       IN  IF word_to_guess.raised # "none"
           THEN /\ raised' = word_to_guess.raised
                /\ pc' = "raised"
                /\ UNCHANGED <<word, guess, guesses, constraints>>
           ELSE IF entered.raised # "none"
           THEN /\ raised' = entered.raised
                /\ pc' = "raised"
                /\ word' = word_to_guess.value
                /\ UNCHANGED <<guess, guesses, constraints>>
           ELSE /\ word' = word_to_guess.value
                /\ guess' = entered.guess
                /\ guesses' = entered.guesses
                /\ constraints' = IF is_correct(entered.guess)
                                  THEN constraints
                                  ELSE update_constraints(constraints, entered.guess,
                                                          WORD_LENGTH)
                /\ pc' = IF is_correct(entered.guess) THEN "after" ELSE "while"
                /\ UNCHANGED raised
    /\ UNCHANGED <<mode, solution, words, result, set_order>>

\* the end of simulate: return True, num_guesses or return False, None
SimReturn ==
    /\ mode = "simulate"
    /\ pc = "after"
    /\ result' = IF won(guesses) THEN <<TRUE, Len(guesses)>> ELSE <<FALSE, None>>
    /\ pc' = "returned"
    /\ UNCHANGED <<mode, word, solution, guess, constraints, words, guesses, raised, set_order>>

NextSim == SimWhile \/ SimBody \/ SimReturn

SpecSim == InitSim /\ [][NextSim]_vars

-----------------------------------------------------------------------------
(* The candidate selector as a pure function: SpecSelect *)

\* length of the words handed to the selector on its own
SelectLen == 2

\* longest constraint list handed to the selector on its own
MaxConstraints == 1

\* the words handed to the selector on its own
SelectWords == [1..SelectLen -> PuzzleLetters]

\* the constraints on words of length SelectLen
SelectConstraints ==
    {Constraint(char, positions, type) :
        char \in PuzzleLetters,
        positions \in SUBSET (0..(SelectLen - 1)),
        type \in {IN_SOME_POSITION, NOT_IN_POSITIONS}}

InitSelect ==
    /\ mode = "select"
    /\ pc = "call"
    /\ word = <<>>
    /\ solution = <<>>
    /\ guess = <<>>
    /\ constraints \in UNION {[1..k -> SelectConstraints] : k \in 0..MaxConstraints}
    /\ words \in UNION {[1..k -> SelectWords] : k \in 0..MaxCorpus}
    /\ guesses = <<>>
    /\ raised = "none"
    /\ set_order \in set_orders(words)
    /\ result = <<>>

\* get_word_to_guess(words, constraints)
Select ==
    /\ mode = "select"
    /\ pc = "call"
    /\ result' = get_word_to_guess(words, constraints)
    /\ raised' = result'.raised
    /\ pc' = "returned"
    /\ UNCHANGED <<mode, word, solution, guess, constraints, words, guesses, set_order>>

NextSelect == Select

SpecSelect == InitSelect /\ [][NextSelect]_vars

-----------------------------------------------------------------------------
(* The candidate selector on words whose set of letters is iterated in an     *)
(* order of the process: SpecSelectHashed                                      *)

\* length of the words handed to the selector
HashedLen == 3

\* the letters of these words: the sum of their three frequencies depends on the
\* order of the additions
HashedLetters == {"a", "b", "e"}

\* the words handed to the selector
HashedWords == [1..HashedLen -> HashedLetters]

\* the constraints on words of length HashedLen
HashedConstraints ==
    {Constraint(char, positions, type) :
        char \in HashedLetters,
        positions \in SUBSET (0..(HashedLen - 1)),
        type \in {IN_SOME_POSITION, NOT_IN_POSITIONS}}

InitSelectHashed ==
    /\ mode = "select_hashed"
    /\ pc = "call"
    /\ word = <<>>
    /\ solution = <<>>
    /\ guess = <<>>
    /\ constraints \in UNION {[1..k -> HashedConstraints] : k \in 0..MaxConstraints}
    /\ words \in UNION {[1..k -> HashedWords] : k \in 0..MaxCorpus}
    /\ guesses = <<>>
    /\ raised = "none"
    /\ set_order \in set_orders(words)
    /\ result = <<>>

\* get_word_to_guess(words, constraints)
SelectHashed ==
    /\ mode = "select_hashed"
    /\ pc = "call"
    /\ result' = get_word_to_guess(words, constraints)
    /\ raised' = result'.raised
    /\ pc' = "returned"
    /\ UNCHANGED <<mode, word, solution, guess, constraints, words, guesses, set_order>>

NextSelectHashed == SelectHashed

SpecSelectHashed == InitSelectHashed /\ [][NextSelectHashed]_vars

-----------------------------------------------------------------------------
(* The claims on the evaluator *)

\* create_from_word has returned from a call with a word and a solution of equal length
EqualLengthCall == pc = "returned" /\ Len(word) = Len(solution)

\* the positions of the returned Guess holding letter c with one of the colours
PositionsWith(c, colours) ==
    {j \in 1..Len(guess) : guess[j].letter = c /\ guess[j].colour \in colours}

\* C2: for equal-length words, no letter is Green or Yellow at more positions of
\* the returned Guess than it has occurrences in the solution, the Guess has one
\* Char per letter of the word, and no Char is left uncoloured
C2_DuplicateCap ==
    EqualLengthCall =>
        /\ Len(guess) = Len(word)
        /\ \A i \in 1..Len(guess) :
              guess[i].letter = word[i] /\ guess[i].colour \in Colour
        /\ \A c \in Letters :
              Cardinality(PositionsWith(c, {GREEN, YELLOW}))
                  <= num_instances_in_solution(solution, c)

\* the cap acts: a letter of the solution is Yellow at one position of the guess
\* and Grey at a later one
C2_Witness ==
    /\ EqualLengthCall
    /\ \E i, j \in 1..Len(guess) :
          /\ i < j
          /\ guess[i].letter = guess[j].letter
          /\ guess[i].colour = YELLOW
          /\ guess[j].colour = GREY
          /\ InWord(guess[j].letter, solution)

\* C3: for equal-length words the returned Guess is the two-pass reference
\* colouring: position i is Green iff the letters agree there; a position that is
\* not Green is Yellow iff the Greens of its letter anywhere plus the Yellows of
\* its letter to its left are fewer than the letter's occurrences in the solution,
\* and Grey otherwise
C3_ReferenceColouring ==
    EqualLengthCall =>
        /\ Len(guess) = Len(word)
        /\ \A i \in 1..Len(guess) :
              LET c == word[i]
                  greens == Cardinality(PositionsWith(c, {GREEN}))
                  yellows_left ==
                      Cardinality({j \in PositionsWith(c, {YELLOW}) : j < i})
              IN  /\ guess[i].letter = c
                  /\ guess[i].colour = GREEN <=> word[i] = solution[i]
                  /\ word[i] # solution[i] =>
                        guess[i].colour =
                            IF greens + yellows_left
                                   < num_instances_in_solution(solution, c)
                            THEN YELLOW ELSE GREY

\* a letter is Grey although the solution holds it, because a Green of the same
\* letter to its right uses up the solution's only occurrence
C3_Witness ==
    /\ EqualLengthCall
    /\ \E i, j \in 1..Len(guess) :
          /\ i < j
          /\ guess[i].letter = guess[j].letter
          /\ guess[i].colour = GREY
          /\ guess[j].colour = GREEN
          /\ num_instances_in_solution(solution, guess[i].letter) = 1

\* C7 (as claimed): a call with words of unequal length raises and returns no Guess
C7_LengthMismatchRejected ==
    (pc = "returned" /\ Len(word) # Len(solution)) =>
        (raised # "none" /\ guess = <<>>)

-----------------------------------------------------------------------------
(* The claims on the updater *)

\* C1: after any sequence of guesses evaluated against one solution and folded
\* into the empty list, the solution satisfies every constraint of the list, so
\* the solution is a candidate get_word_to_guess finds: it does not raise on a
\* corpus that holds the solution
C1_SolutionSatisfiesConstraints ==
    mode = "fold" =>
        /\ satisfies_all(constraints, solution)
        /\ get_word_to_guess(<<solution>>, constraints) = Returned(solution)

\* two guesses are folded, the second with a duplicated letter that is Grey at one
\* position although the solution holds it, and the second guess removed a
\* constraint the first had added
C1_Witness ==
    /\ mode = "fold"
    /\ Len(guesses) = 2
    /\ \E i \in 1..Len(guess) :
          guess[i].colour = GREY /\ InWord(guess[i].letter, solution)
    /\ \E i \in 1..Len(guess) : guess[i].colour = YELLOW
    /\ Len(constraints)
          < Len(update_constraints(<<>>, guesses[1], WORD_LENGTH))
              + Len(update_constraints(<<>>, guesses[2], WORD_LENGTH))

\* C10 (as claimed): every word that satisfies the list returned for a guess has
\* the guess's letter at each position where the guess is Green
C10_GreenEnforced ==
    (mode = "fold" /\ guesses # <<>>) =>
        \A x \in PuzzleWords :
            satisfies_all(constraints, x) =>
                \A i \in 1..Len(guess) :
                    guess[i].colour = GREEN => x[i] = guess[i].letter

-----------------------------------------------------------------------------
(* The claims on the puzzle and on simulate *)

\* what holds in every state of a run of simulate: at most MAX_NUM_GUESSES rounds
\* are played, no call raises, and once the loop is left the puzzle is either Won
\* or Lost, never both, and simulate returns that verdict
SimulateRunsClean ==
    mode = "simulate" =>
        /\ Len(guesses) <= MAX_NUM_GUESSES
        /\ raised = "none"
        /\ pc # "raised"
        /\ pc \in {"after", "returned"} =>
              /\ won(guesses) # lost(guesses)
              /\ won(guesses) <=> is_correct(guess)
        /\ pc = "returned" =>
              result = IF won(guesses) THEN <<TRUE, Len(guesses)>> ELSE <<FALSE, None>>

\* the steps simulate can still take, at most: it falls with every step
StepsLeft ==
    3 * (MAX_NUM_GUESSES - Len(guesses))
        + (CASE pc = "while" -> 3
             [] pc = "body" -> 2
             [] pc = "after" -> 1
             [] OTHER -> 0)

\* C4: a run of simulate on a corpus that holds the solution plays at most
\* MAX_NUM_GUESSES rounds, raises nothing (enter_word's "exceeded max number of
\* guesses" included), and ends with exactly one of Won and Lost: no run stops
\* short of the return (pc is never "raised", and every other position has a
\* step), and every step brings the return nearer
C4_SimulateTerminates ==
    /\ []SimulateRunsClean
    /\ [][mode = "simulate" => (StepsLeft' < StepsLeft /\ StepsLeft' >= 0)]_vars

\* a run that ends Lost: MAX_NUM_GUESSES guesses are made and the last is not correct
C4_Witness ==
    /\ mode = "simulate"
    /\ pc = "returned"
    /\ Len(guesses) = MAX_NUM_GUESSES
    /\ lost(guesses)
    /\ result = <<FALSE, None>>

\* C6 (as claimed): once the puzzle is Won or Lost, no operation changes its guess
\* history (and so none changes its status)
C6_TerminalStates ==
    [][(mode = "puzzle" /\ (won(guesses) \/ lost(guesses))) =>
           (guesses' = guesses /\ won(guesses') = won(guesses))]_vars

\* C9 (as claimed): after a round that did not win, the word just guessed does not
\* satisfy the constraint list update_constraints returned for it
C9_GuessedWordExcluded ==
    (mode = "simulate" /\ pc = "while" /\ guesses # <<>>) =>
        ~satisfies_all(constraints, word)

-----------------------------------------------------------------------------
(* The claims on the selector *)

SelectReturned == mode = "select" /\ pc = "returned"

\* the words of the corpus list that satisfy every constraint of the list
Survivors == {words[k] : k \in {j \in 1..Len(words) : satisfies_all(constraints, words[j])}}

\* C5: get_word_to_guess returns a word of the corpus that satisfies every
\* constraint of the list, or, when no word of the corpus does, raises instead of
\* returning a word
C5_SelectedWordIsCandidate ==
    SelectReturned =>
        IF Survivors = {}
        THEN result.raised # "none" /\ result.value = <<>>
        ELSE /\ result.raised = "none"
             /\ \E k \in 1..Len(words) : words[k] = result.value
             /\ satisfies_all(constraints, result.value)

\* a constraint removes the best word of the corpus and another word is returned
C5_Witness ==
    /\ SelectReturned
    /\ constraints # <<>>
    /\ result.raised = "none"
    /\ \E k \in 1..Len(words) :
          /\ ~satisfies_all(constraints, words[k])
          /\ float_less(get_frequency_score(result.value), get_frequency_score(words[k]))

\* the lists that hold the words of ws in another order
Reordered(ws) ==
    {[i \in 1..Len(ws) |-> ws[f[i]]] :
        f \in {g \in [1..Len(ws) -> 1..Len(ws)] :
                  \A i, j \in 1..Len(ws) : i # j => g[i] # g[j]}}

\* get_word_to_guess has returned, in a process with its own order of set(word)
HashedReturned == mode = "select_hashed" /\ pc = "returned"

\* C8: candidate selection is a function of the corpus as a set: in one process,
\* for the same constraints, the call returns the same word (or raises the same
\* error) whatever order the corpus words are listed in
C8_SameWordInAnyOrder ==
    HashedReturned =>
        \A ws \in Reordered(words) : get_word_to_guess(ws, constraints) = result

====
